---- MODULE Spec2Model ----
(***************************************************************************)
(* A model of gapul/ascii-player: the playback controller of src/main.rs   *)
(* (main's control flow, PlaybackState, the key handlers), the frame       *)
(* iterator of src/decoder.rs, the terminal lifecycle of src/renderer.rs   *)
(* and the frame conversion of src/converter.rs, the argument validation   *)
(* of src/cli.rs and the status notifier of src/main.rs.                   *)
(*                                                                         *)
(* Conventions.  An Option<T> is a sequence: None is <<>>, Some(v) is      *)
(* <<v>>.  An f64 speed is an exact rational <<n, d>> in lowest terms.     *)
(* Times (f64 seconds) are integer ticks.  A call that returns Result and  *)
(* performs terminal or file I/O has both outcomes.                        *)
(***************************************************************************)
EXTENDS Integers, Sequences, FiniteSets, TLC

VARIABLES
    cli,              \* the parsed command line (main.rs:98)
    state,            \* PlaybackState (main.rs:72-78)
    pc,               \* main's position
    frame_iter,       \* Option<FrameIterator> (main.rs:154)
    frame,            \* Option<VideoFrame>: the frame of this iteration
    ascii_frame,      \* Option<AsciiFrame>: its conversion
    frame_count,      \* main.rs:192
    renderer,         \* Option<Renderer>: the cached terminal size
    terminal,         \* the terminal device: raw mode, cursor
    last,             \* the operation performed by the last step
    init_called,      \* Renderer::init was called
    cleanups,         \* number of calls of Renderer::cleanup
    error_displayed,  \* number of calls of Renderer::display_error
    exit_cause,       \* why main left the loop or returned
    result,           \* "running", main's return "ok" / "err", or "exit_1"
    call,             \* a call of a function on its own: inputs, output
    invalid_arguments, \* Option<String>: the error logged at main.rs:102
    sketchybar,       \* Option<SketchyBarIntegration> (main.rs:115-119)
    frame_delay       \* Option<ms>: the sleep that ends the iteration

vars == << cli, state, pc, frame_iter, frame, ascii_frame, frame_count,
           renderer, terminal, last, init_called, cleanups, error_displayed,
           exit_cause, result, call, invalid_arguments, sketchybar,
           frame_delay >>

None == << >>
Some(v) == << v >>

----------------------------------------------------------------------------
(* Bounds of the model *)

\* Numerators and denominators of a modelled speed stay at or below this.
MaxMag == 1024
\* Number of frames of the video.
NumFrames == 4

----------------------------------------------------------------------------
(* Rational arithmetic for f64 speeds *)

RECURSIVE GCD(_, _)
GCD(a, b) == IF b = 0 THEN a ELSE GCD(b, a % b)

Rat(n, d) == LET g == GCD(n, d) IN << n \div g, d \div g >>
RatMul(a, b) == Rat(a[1] * b[1], a[2] * b[2])
RatDiv(a, b) == Rat(a[1] * b[2], a[2] * b[1])
RatLess(a, b) == a[1] * b[2] < b[1] * a[2]
RatLeq(a, b) == a[1] * b[2] <= b[1] * a[2]
\* f64::min and f64::max
RatMin(a, b) == IF RatLess(b, a) THEN b ELSE a
RatMax(a, b) == IF RatLess(a, b) THEN b ELSE a
Representable(s) == s[1] <= MaxMag /\ s[2] <= MaxMag

\* main.rs:227, 231: the factor 1.25
SpeedFactor == << 5, 4 >>
\* main.rs:227: .min(4.0)
MaxSpeed == << 4, 1 >>
\* main.rs:231: .max(0.25)
MinSpeed == << 1, 4 >>

\* main.rs:227  state.speed = (state.speed * 1.25).min(4.0)
SpeedUp(s) == RatMin(RatMul(s, SpeedFactor), MaxSpeed)
\* main.rs:231  state.speed = (state.speed / 1.25).max(0.25)
SpeedDown(s) == RatMax(RatDiv(s, SpeedFactor), MinSpeed)

InSpeedRange(s) == RatLeq(MinSpeed, s) /\ RatLeq(s, MaxSpeed)

----------------------------------------------------------------------------
(* The command line: src/cli.rs *)

\* --speed (cli.rs:17): f64 values as rationals; 0 is not accepted
CliSpeeds ==
    { << 0, 1 >>, << 1, 8 >>, << 1, 4 >>, << 1, 1 >>, << 4, 1 >>, << 8, 1 >> }
\* --start-time, --end-time (cli.rs:53, 57), in ticks
StartTimes == { None, Some(1), Some(-1) }
EndTimes == { None, Some(2) }
\* --width, --height (cli.rs:29, 33)
CliWidths == { None, Some(0) }
CliHeights == { None, Some(0) }
\* --fps (cli.rs:49)
CliFps == { None, Some(<< 0, 1 >>) }

\* cli.rs:80-127 validate(): None is Ok(()), Some(msg) is Err(msg); the
\* checks in the order of the code, the first failing one returns.
Validate(c) ==
    IF ~c.file_exists
    THEN Some("Video file does not exist")
    ELSE IF RatLeq(c.speed, << 0, 1 >>)
    THEN Some("Speed factor must be greater than 0")
    ELSE IF c.width # None /\ c.width[1] = 0
    THEN Some("Terminal width must be greater than 0")
    ELSE IF c.height # None /\ c.height[1] = 0
    THEN Some("Terminal height must be greater than 0")
    ELSE IF c.fps # None /\ RatLeq(c.fps[1], << 0, 1 >>)
    THEN Some("FPS must be greater than 0")
    ELSE IF c.start_time # None /\ c.end_time # None
            /\ c.start_time[1] >= c.end_time[1]
    THEN Some("Start time must be less than end time")
    ELSE IF c.start_time # None /\ c.end_time # None
            /\ (c.start_time[1] < 0 \/ c.end_time[1] < 0)
    THEN Some("Time values must be non-negative")
    ELSE None

\* cli.rs:116-124: the time range check of validate()
TimeRangeOk(start, end) ==
    \/ start = None
    \/ end = None
    \/ /\ ~(start[1] >= end[1])
       /\ ~(start[1] < 0 \/ end[1] < 0)

ValidateOk(c) == Validate(c) = None

\* The command lines Cli::parse() returns (main.rs:98) with the notifier
\* item given or not: validate() has not looked at them yet.
ParsedClis(items) ==
    [ file_exists : BOOLEAN, speed : CliSpeeds, loop_playback : BOOLEAN,
      width : CliWidths, height : CliHeights, fps : CliFps,
      start_time : StartTimes, end_time : EndTimes,
      sketchybar_item : items ]

\* The sessions of Spec run without --sketchybar-item.
Clis == ParsedClis({ None })

----------------------------------------------------------------------------
(* The frame source: src/decoder.rs *)

\* The video: NumFrames frames of VideoDims pixels, frame i at tick i.
VideoDims == << 4, 2 >>
Timestamp(i) == i
\* decoder.rs:100-102 fps(): the stream's average frame rate
VideoFps == << 30, 1 >>

\* decoder.rs:285-288 load_video, decoder.rs:239-246 FrameIterator::new
LoadVideo(start_time, end_time) ==
    [ pos |-> 0, start_time |-> start_time, end_time |-> end_time,
      has_seeked |-> FALSE ]

\* decoder.rs:115-127 seek_to: the stream position after a successful seek
\* to time t (every frame is a key frame): the last frame at or before t.
SeekPos(t) ==
    LET before == { i \in 0 .. NumFrames - 1 : Timestamp(i) <= t }
    IN  IF before = {} THEN 0
        ELSE CHOOSE i \in before : \A j \in before : j <= i

\* a seek that does not note that it was done
AfterSeek_KeepsSeeking(it) ==
    IF it.start_time # None /\ ~it.has_seeked
    THEN [ it EXCEPT !.pos = SeekPos(it.start_time[1]) ]
    ELSE it

\* decoder.rs:259-266: the seek on the first call of next()
AfterSeek(it) ==
    IF it.start_time # None /\ ~it.has_seeked
    THEN [ it EXCEPT !.pos = SeekPos(it.start_time[1]), !.has_seeked = TRUE ]
    ELSE it

\* an end time that is still played: > for >=
ReachedEnd_Inclusive(it, ts) == it.end_time # None /\ ts > it.end_time[1]

\* decoder.rs:271-275: the end time test of a decoded frame
ReachedEnd(it, ts) == it.end_time # None /\ ts >= it.end_time[1]

\* decoder.rs:257-281 FrameIterator::next: the outcomes of one call.
\* kind "frame" is Some(Ok(frame)), "error" is Some(Err(e)), "end" is None;
\* seek tells whether seek_to was called ("none") and what it returned
\* ("failed", "done"); decoded whether next_frame was called.
IterNext(it) ==
    LET seeks == it.start_time # None /\ ~it.has_seeked
        it1   == AfterSeek(it)
        f     == [ index |-> it1.pos, timestamp |-> Timestamp(it1.pos),
                   width |-> VideoDims[1], height |-> VideoDims[2] ]
        it2   == [ it1 EXCEPT !.pos = it1.pos + 1 ]
        seek  == IF seeks THEN "done" ELSE "none"
    IN  \* seek_to fails (decoder.rs:261-263): has_seeked stays false
        ( IF seeks
          THEN { [ kind |-> "error", iter |-> it, frame |-> None,
                   seek |-> "failed", decoded |-> FALSE ] }
          ELSE {} )
        \cup
        \* next_frame returns Err (decoder.rs:279)
        { [ kind |-> "error", iter |-> it1, frame |-> None,
            seek |-> seek, decoded |-> TRUE ] }
        \cup
        ( IF it1.pos < NumFrames
          THEN IF ReachedEnd(it1, f.timestamp)
               THEN { [ kind |-> "end", iter |-> it2, frame |-> None,
                        seek |-> seek, decoded |-> TRUE ] }
               ELSE { [ kind |-> "frame", iter |-> it2, frame |-> Some(f),
                        seek |-> seek, decoded |-> TRUE ] }
          ELSE { [ kind |-> "end", iter |-> it1, frame |-> None,
                   seek |-> seek, decoded |-> TRUE ] } )

----------------------------------------------------------------------------
(* The frame converter's sizing: src/converter.rs *)

\* u16::MAX: the value an f64 -> u16 cast saturates at
U16Max == 65535

Min(a, b) == IF a < b THEN a ELSE b
Max(a, b) == IF a > b THEN a ELSE b
\* `x as u16` of a non-negative f64 whose integer part is q
AsU16(q) == Min(q, U16Max)

\* a sizing without the .min(term_height) / .min(term_width) caps
CalculateTargetDimensions_NoCap(sw, sh, tw, th) ==
    LET wider == sw * th > 2 * tw * sh
        h == AsU16((tw * sh) \div (2 * sw))
        w == AsU16((2 * th * sw) \div sh)
        target == IF wider THEN << tw, h >> ELSE << w, th >>
    IN  << Max(target[1], 1), Max(target[2], 1) >>

\* a sizing without the final .max(1)
CalculateTargetDimensions_NoFloor(sw, sh, tw, th) ==
    LET wider == sw * th > 2 * tw * sh
        h == AsU16((tw * sh) \div (2 * sw))
        w == AsU16((2 * th * sw) \div sh)
    IN  IF wider THEN << tw, Min(h, th) >> ELSE << Min(w, tw), th >>

\* converter.rs:183-204 calculate_target_dimensions with aspect_ratio = 0.5
\* (converter.rs:51).  src_aspect > term_aspect is sw/sh > tw/(th*0.5),
\* cross-multiplied: it is false when th = 0 (the quotient is inf or NaN).
CalculateTargetDimensions(src_width, src_height, term_width, term_height) ==
    LET wider == src_width * term_height > 2 * term_width * src_height
        \* ((term_width / src_aspect) * 0.5) as u16
        h == AsU16((term_width * src_height) \div (2 * src_width))
        \* ((term_height * src_aspect) / 0.5) as u16
        w == AsU16((2 * term_height * src_width) \div src_height)
        target == IF wider
                  THEN << term_width, Min(h, term_height) >>
                  ELSE << Min(w, term_width), term_height >>
    IN  << Max(target[1], 1), Max(target[2], 1) >>

----------------------------------------------------------------------------
(* The colour transform: src/converter.rs:240-269 *)

\* The channel values (u8) of the modelled pixels.
Channels == { 0, 1, 14, 68, 76, 127, 128, 177, 254, 255 }

\* The triples of Channels whose weighted sum is exactly k + 1/2 and whose
\* f64 sum 0.2126*r + 0.7152*g + 0.0722*b comes out just below it
\* (15.499999999999998 for (0, 14, 76)): round() goes down there.
LuminanceF64Below == { << 0, 14, 76 >> }

\* the fraction cut off instead of rounded: `as u8` without round()
CalculateLuminance_Truncated(r, g, b) ==
    (2126 * r + 7152 * g + 722 * b) \div 10000

\* converter.rs:241-245 calculate_luminance: the weighted sum in units of
\* 1/10000, round() to the nearest integer (a half goes up, unless the f64
\* sum fell below the half), clamp(0, 255)
CalculateLuminance(r, g, b) ==
    LET sum == 2126 * r + 7152 * g + 722 * b
        rounded == IF << r, g, b >> \in LuminanceF64Below
                   THEN sum \div 10000
                   ELSE (sum + 5000) \div 10000
    IN  Max(0, Min(rounded, 255))

\* len() for len() - 1: the last index is taken for the ramp length
LuminanceToCharIndex_OffByOne(luminance, len) ==
    Min((2 * luminance * len + 255) \div 510, len)

\* converter.rs:248-252 luminance_to_char_index for a ramp of len >= 1
\* glyphs: round(luminance / 255 * (len - 1)), at most len - 1.
\* 2 * luminance * (len - 1) is even and 255 * (2k + 1) is odd: the
\* product is never a half, and f64 rounds as the exact quotient does.
LuminanceToCharIndex(luminance, len) ==
    Min((2 * luminance * (len - 1) + 255) \div 510, len - 1)

----------------------------------------------------------------------------
(* The frame conversion: src/converter.rs:70-180, 207-238 *)

\* round() of the f64 n / d with d > 0: a half goes away from zero
RoundHalfAway(n, d) ==
    IF n >= 0 THEN (2 * n + d) \div (2 * d)
    ELSE 0 - ((2 * (0 - n) + d) \div (2 * d))

\* converter.rs:256-266 the closure adjust of adjust_color:
\* ((value + brightness * 255) - 128) * contrast + 128, round, clamp
Adjust(value, brightness, contrast) ==
    LET d == brightness[2] * contrast[2]
        n == (value * brightness[2] + 255 * brightness[1]
                - 128 * brightness[2]) * contrast[1] + 128 * d
    IN  Max(0, Min(RoundHalfAway(n, d), 255))

\* converter.rs:255-269 adjust_color
AdjustColor(config, r, g, b) ==
    << Adjust(r, config.brightness, config.contrast),
       Adjust(g, config.brightness, config.contrast),
       Adjust(b, config.brightness, config.contrast) >>

\* A u16 operation whose exact result is v: with overflow checks (a debug
\* build) a result above u16::MAX panics, without them it wraps.
U16Panics(v, overflow_checks) == overflow_checks /\ v > U16Max
U16Wrap(v) == v % (U16Max + 1)

\* converter.rs:220-223 the source index of target cell (x, y):
\* src_x = (x * x_ratio) as u32, src_y = (y * y_ratio) as u32
SrcIndex(fr, tw, th, x, y) ==
    LET src_x == (x * fr.width) \div tw
        src_y == (y * fr.height) \div th
    IN  (src_y * fr.width + src_x) * 3

\* converter.rs:207-238 resize_frame_data: byte i of the vector it returns
\* (3 bytes for each of the tw * th cells, row by row): the source bytes
\* when all three are within the data, 0 otherwise.  Sequences count from
\* 1, slices from 0.
ResizedByte(fr, tw, th, i) ==
    LET k == i \div 3
        src_index == SrcIndex(fr, tw, th, k % tw, k \div tw)
    IN  IF src_index + 2 < Len(fr.data)
        THEN fr.data[src_index + (i % 3) + 1]
        ELSE 0

ResizedLen(tw, th) == tw * th * 3

\* converter.rs:97-101 the background vector: none in transparent mode
BgColorsNew_Always(config) == Some(0)

BgColorsNew(config) == IF config.transparent THEN None ELSE Some(0)

\* `if let Some(ref mut bg) = bg_colors { bg.push(c) }` for a cell
BgOf(config, c) == IF BgColorsNew(config) = None THEN None ELSE Some(c)

\* converter.rs:122-126, 162-166 the blank cell
BlankCell(config) ==
    [ ch |-> " ", fg |-> << 0, 0, 0 >>, bg |-> BgOf(config, << 0, 0, 0 >>) ]

\* the threshold itself counted as below it
BelowThreshold_Inclusive(adj, threshold) ==
    (adj[1] + adj[2] + adj[3]) \div 3 <= threshold

\* converter.rs:120-121 alpha = (adj_r + adj_g + adj_b) / 3 in u16,
\* alpha < threshold
BelowThreshold(adj, threshold) ==
    (adj[1] + adj[2] + adj[3]) \div 3 < threshold

\* converter.rs:108-159 the cell of a pixel (r, g, b) read from the resized
\* data
MapPixel(config, r, g, b) ==
    LET adj == AdjustColor(config, r, g, b)
        luminance == CalculateLuminance(adj[1], adj[2], adj[3])
        char_index == LuminanceToCharIndex(luminance, Len(config.ascii_chars))
        ascii_char == config.ascii_chars[char_index + 1]
    IN  IF config.alpha_threshold # None
           /\ BelowThreshold(adj, config.alpha_threshold[1])
        THEN BlankCell(config)
        ELSE CASE config.palette = "ascii" ->
                    [ ch |-> ascii_char, fg |-> << 255, 255, 255 >>,
                      bg |-> BgOf(config, << 0, 0, 0 >>) ]
               [] config.palette = "grayscale" ->
                    [ ch |-> ascii_char,
                      fg |-> << luminance, luminance, luminance >>,
                      bg |-> BgOf(config, << 0, 0, 0 >>) ]
               [] config.palette = "color" ->
                    [ ch |-> ascii_char, fg |-> adj,
                      bg |-> BgOf(config, << adj[1] \div 4, adj[2] \div 4,
                                             adj[3] \div 4 >>) ]

\* converter.rs:105-167 one iteration of the inner loop, pixel_index
\* given: the cell pushed
CellAt(config, fr, tw, th, pixel_index) ==
    IF pixel_index + 2 < ResizedLen(tw, th)
    THEN MapPixel(config, ResizedByte(fr, tw, th, pixel_index),
                          ResizedByte(fr, tw, th, pixel_index + 1),
                          ResizedByte(fr, tw, th, pixel_index + 2))
    ELSE BlankCell(config)

----------------------------------------------------------------------------
(* The terminal and the renderer: src/renderer.rs *)

\* 1000 / fps rounded to the nearest millisecond
CalculateFrameDelay_Rounded(target_fps, speed_multiplier) ==
    LET e == RatMul(target_fps, speed_multiplier)
    IN  (2000 * e[2] + e[1]) \div (2 * e[1])

\* renderer.rs:283-287 calculate_frame_delay, in milliseconds, for
\* target_fps * speed_multiplier > 0: (1000.0 / effective_fps) as u64 cuts
\* the fraction off
CalculateFrameDelay(target_fps, speed_multiplier) ==
    LET effective_fps == RatMul(target_fps, speed_multiplier)
    IN  (1000 * effective_fps[2]) \div effective_fps[1]

\* The sizes crossterm::terminal::size() may report.
TermSizes == { << 80, 24 >>, << 3, 1 >>, << 0, 0 >> }

\* renderer.rs:55-60 Renderer::cleanup on terminal t.  ok: the execute!
\* of line 56 succeeds, and disable_raw_mode is reached; otherwise the
\* `?` of line 56 returns before line 57.
RendererCleanup(t, ok) ==
    IF ok THEN [ raw |-> FALSE, cursor_hidden |-> FALSE ] ELSE t

----------------------------------------------------------------------------
(* main: src/main.rs:93-353 *)

loopVars == << state, frame_iter, frame, ascii_frame, frame_count >>
histVars == << init_called, cleanups, error_displayed >>

\* main.rs:194 effective_fps = cli.fps.unwrap_or(video_fps)
EffectiveFps(c) == IF c.fps # None THEN c.fps[1] ELSE VideoFps

\* main.rs:122-126: PlaybackState from the command line
InitialState(c) ==
    [ paused |-> FALSE, speed |-> c.speed, loop_enabled |-> c.loop_playback,
      quit_requested |-> FALSE, show_help |-> FALSE ]

\* main at its entry with command line c
MainEntry(c) ==
    /\ cli = c
    /\ state = InitialState(cli)
    /\ pc = "validate"
    /\ frame_iter = None
    /\ frame = None
    /\ ascii_frame = None
    /\ frame_count = 0
    /\ renderer = None
    /\ terminal = [ raw |-> FALSE, cursor_hidden |-> FALSE ]
    /\ last = "start"
    /\ init_called = FALSE
    /\ cleanups = 0
    /\ error_displayed = 0
    /\ exit_cause = "none"
    /\ result = "running"
    /\ call = [ fn |-> "none" ]
    /\ invalid_arguments = None
    /\ sketchybar = None
    /\ frame_delay = None

Init == \E c \in Clis : MainEntry(c)

\* main.rs:29-47 update_status: the label is sent to the sketchybar command;
\* ok: the command ran and succeeded, and the bar shows the label.  Either
\* way the function returns Ok(()).
UpdateStatus(sb, label, ok) ==
    IF sb = None THEN None
    ELSE Some([ sent |-> Some(label),
                shown |-> IF ok THEN Some(label) ELSE sb[1].shown,
                last_ok |-> ok ])

\* main.rs:101-126 validate(), the notifier, PlaybackState.  An Err is
\* logged and the process exits with status 1: nothing is dropped.
ValidateArgs ==
    /\ pc = "validate"
    /\ IF ValidateOk(cli)
       THEN /\ pc' = "new"
            /\ last' = "validate"
            /\ sketchybar' =
                   IF cli.sketchybar_item # None
                   THEN Some([ sent |-> None, shown |-> None,
                               last_ok |-> TRUE ])
                   ELSE None
            /\ UNCHANGED << invalid_arguments, result, exit_cause >>
       ELSE /\ pc' = "exited"
            /\ last' = "validate_err"
            /\ invalid_arguments' = Validate(cli)
            /\ result' = "exit_1"
            /\ exit_cause' = "invalid_arguments"
            /\ UNCHANGED sketchybar
    /\ UNCHANGED << cli, loopVars, renderer, terminal, histVars, call,
                    frame_delay >>

\* A `?` or `return Err(e)` of main once the Renderer exists: main returns
\* Err and the Renderer is dropped.
ReturnErr(cause, op) ==
    /\ pc' = "drop"
    /\ result' = "err"
    /\ exit_cause' = cause
    /\ last' = op

\* main.rs:147 Renderer::new (renderer.rs:33-44)
RendererNew ==
    /\ pc = "new"
    /\ \/ \E size \in TermSizes :
             /\ renderer' = Some([ terminal_width |-> size[1],
                                   terminal_height |-> size[2] ])
             /\ pc' = "init"
             /\ last' = "renderer_new"
             /\ UNCHANGED << result, exit_cause, sketchybar >>
       \/ \* terminal::size() fails: no Renderer exists, main returns Err
          \* and the notifier is dropped
          /\ pc' = "exited"
          /\ result' = "err"
          /\ exit_cause' = "io_error"
          /\ last' = "renderer_new_err"
          /\ \E ok \in BOOLEAN : sketchybar' = UpdateStatus(sketchybar, "", ok)
          /\ UNCHANGED renderer
    /\ UNCHANGED << cli, loopVars, terminal, histVars, call,
                    invalid_arguments, frame_delay >>

\* main.rs:148 renderer.init()? (renderer.rs:47-52)
RendererInit ==
    /\ pc = "init"
    /\ init_called' = TRUE
    /\ \/ \* enable_raw_mode fails
          /\ ReturnErr("io_error", "init_err")
          /\ UNCHANGED terminal
       \/ \* enable_raw_mode succeeds, execute!(Hide, Clear) fails
          /\ ReturnErr("io_error", "init_err")
          /\ terminal' = [ terminal EXCEPT !.raw = TRUE ]
       \/ /\ terminal' = [ raw |-> TRUE, cursor_hidden |-> TRUE ]
          /\ pc' = "loading"
          /\ last' = "init"
          /\ UNCHANGED << result, exit_cause >>
    /\ UNCHANGED << cli, loopVars, renderer, cleanups, error_displayed, call,
                    invalid_arguments, sketchybar, frame_delay >>

\* main.rs:151 renderer.display_loading(..)? (renderer.rs:214-225)
DisplayLoading ==
    /\ pc = "loading"
    /\ \/ /\ pc' = "load"
          /\ last' = "display_loading"
          /\ UNCHANGED << result, exit_cause >>
       \/ ReturnErr("io_error", "display_loading_err")
    /\ UNCHANGED << cli, loopVars, renderer, terminal, histVars, call,
                    invalid_arguments, sketchybar, frame_delay >>

\* main.rs:154-189 the first load_video, the converter, set_playing
LoadInitial ==
    /\ pc = "load"
    /\ \/ /\ frame_iter' = Some(LoadVideo(cli.start_time, cli.end_time))
          /\ \E ok \in BOOLEAN :
                sketchybar' = UpdateStatus(sketchybar, "playing", ok)
          /\ pc' = "poll"
          /\ last' = "load_video"
          /\ UNCHANGED << result, exit_cause, error_displayed >>
       \/ \* Err(e): display_error, sleep, return Err(e); a failing
          \* display_error returns its own error instead
          /\ error_displayed' = error_displayed + 1
          /\ ReturnErr("load_error", "load_video_err")
          /\ UNCHANGED << frame_iter, sketchybar >>
    /\ UNCHANGED << cli, state, frame, ascii_frame, frame_count, renderer,
                    terminal, init_called, cleanups, call, invalid_arguments,
                    frame_delay >>

----------------------------------------------------------------------------
(* The playback loop, input handling: main.rs:196-255 *)

\* What an input step leaves alone besides what its handler assigns.
InputFrame == << cli, frame, ascii_frame, terminal, histVars, call,
                invalid_arguments >>

\* The handler fell through to the code after the match (main.rs:257).
Handled(op) ==
    /\ pc' = "gate"
    /\ last' = op
    /\ frame_delay' = None
    /\ UNCHANGED << result, exit_cause >>

\* main.rs:198 event::poll(1ms)? returns false
NoEvent ==
    /\ pc = "poll"
    /\ Handled("no_event")
    /\ UNCHANGED << InputFrame, state, frame_iter, frame_count, renderer,
                    sketchybar >>

\* main.rs:198-199 event::poll(..)? or event::read()? fails
PollError ==
    /\ pc = "poll"
    /\ ReturnErr("io_error", "poll_err")
    /\ frame_delay' = None
    /\ UNCHANGED << InputFrame, state, frame_iter, frame_count, renderer,
                    sketchybar >>

\* `break` without having handled the event: quit without leaving the loop
KeyQuit_NoBreak ==
    /\ pc = "poll"
    /\ state' = [ state EXCEPT !.quit_requested = TRUE ]
    /\ Handled("key_quit")
    /\ UNCHANGED << InputFrame, frame_iter, frame_count, renderer,
                    sketchybar >>

\* main.rs:202-211 'q', Esc, and 'c' with CONTROL
KeyQuit ==
    /\ pc = "poll"
    /\ state' = [ state EXCEPT !.quit_requested = TRUE ]
    /\ pc' = "cleanup"
    /\ exit_cause' = "quit"
    /\ last' = "key_quit"
    /\ frame_delay' = None
    /\ UNCHANGED << InputFrame, frame_iter, frame_count, renderer, result,
                    sketchybar >>

\* a notifier whose failure is returned: set_paused(..)? / set_playing(..)?
\* leave main with Err
KeyPause_NotifierFatal ==
    /\ pc = "poll"
    /\ state' = [ state EXCEPT !.paused = ~state.paused ]
    /\ \E ok \in BOOLEAN :
          /\ sketchybar' =
                 UpdateStatus(sketchybar,
                     IF state'.paused THEN "paused" ELSE "playing", ok)
          /\ IF ok \/ sketchybar = None
             THEN Handled("key_pause")
             ELSE /\ ReturnErr("notifier_error", "key_pause_err")
                  /\ frame_delay' = None
    /\ UNCHANGED << InputFrame, frame_iter, frame_count, renderer >>

\* main.rs:212-225 ' ': toggle paused, then set_paused or set_playing,
\* which return Ok whatever the sketchybar command did
KeyPause ==
    /\ pc = "poll"
    /\ state' = [ state EXCEPT !.paused = ~state.paused ]
    /\ \E ok \in BOOLEAN :
          sketchybar' =
              UpdateStatus(sketchybar,
                  IF state'.paused THEN "paused" ELSE "playing", ok)
    /\ Handled("key_pause")
    /\ UNCHANGED << InputFrame, frame_iter, frame_count, renderer >>

\* main.rs:226-229 '+', '='
KeySpeedUp ==
    /\ pc = "poll"
    /\ Representable(RatMul(state.speed, SpeedFactor))
    /\ state' = [ state EXCEPT !.speed = SpeedUp(state.speed) ]
    /\ Handled("key_speed_up")
    /\ UNCHANGED << InputFrame, frame_iter, frame_count, renderer,
                    sketchybar >>

\* main.rs:230-233 '-'
KeySpeedDown ==
    /\ pc = "poll"
    /\ Representable(RatDiv(state.speed, SpeedFactor))
    /\ state' = [ state EXCEPT !.speed = SpeedDown(state.speed) ]
    /\ Handled("key_speed_down")
    /\ UNCHANGED << InputFrame, frame_iter, frame_count, renderer,
                    sketchybar >>

\* a loop key that is ignored while the help overlay is shown
KeyLoop_NotInHelp ==
    /\ pc = "poll"
    /\ state' = IF state.show_help THEN state
                ELSE [ state EXCEPT !.loop_enabled = ~state.loop_enabled ]
    /\ Handled("key_loop")
    /\ UNCHANGED << InputFrame, frame_iter, frame_count, renderer,
                    sketchybar >>

\* main.rs:234-237 'l'
KeyLoop ==
    /\ pc = "poll"
    /\ state' = [ state EXCEPT !.loop_enabled = ~state.loop_enabled ]
    /\ Handled("key_loop")
    /\ UNCHANGED << InputFrame, frame_iter, frame_count, renderer,
                    sketchybar >>

\* a help key that also resumes playback
KeyHelp_AlsoUnpauses ==
    /\ pc = "poll"
    /\ state' = [ state EXCEPT !.show_help = ~state.show_help,
                               !.paused = FALSE ]
    /\ Handled("key_help")
    /\ UNCHANGED << InputFrame, frame_iter, frame_count, renderer,
                    sketchybar >>

\* main.rs:238-240 'h'
KeyHelp ==
    /\ pc = "poll"
    /\ state' = [ state EXCEPT !.show_help = ~state.show_help ]
    /\ Handled("key_help")
    /\ UNCHANGED << InputFrame, frame_iter, frame_count, renderer,
                    sketchybar >>

\* The source that the restart key and the end of the video reopen:
\* main.rs:243, 294  load_video(&cli.file_path, cli.start_time, cli.end_time)
Reopen(c) == LoadVideo(c.start_time, c.end_time)

\* a restart that forgets frame_count = 0
KeyRestart_KeepsCount ==
    /\ pc = "poll"
    /\ \/ /\ frame_iter' = Some(Reopen(cli))
          /\ Handled("key_restart")
          /\ UNCHANGED frame_count
       \/ /\ ReturnErr("reopen_error", "key_restart_err")
          /\ frame_delay' = None
          /\ UNCHANGED << frame_iter, frame_count >>
    /\ UNCHANGED << InputFrame, state, renderer, sketchybar >>

\* main.rs:241-245 'r'
KeyRestart ==
    /\ pc = "poll"
    /\ \/ /\ frame_iter' = Some(Reopen(cli))
          /\ frame_count' = 0
          /\ Handled("key_restart")
       \/ \* load_video(..)? fails: main returns Err
          /\ ReturnErr("reopen_error", "key_restart_err")
          /\ frame_delay' = None
          /\ UNCHANGED << frame_iter, frame_count >>
    /\ UNCHANGED << InputFrame, state, renderer, sketchybar >>

\* main.rs:246 any other key, main.rs:253 any other event
OtherEvent ==
    /\ pc = "poll"
    /\ Handled("other_event")
    /\ UNCHANGED << InputFrame, state, frame_iter, frame_count, renderer,
                    sketchybar >>

\* main.rs:249-252 Event::Resize: renderer.update_dimensions()?
\* (renderer.rs:63-69)
EventResize ==
    /\ pc = "poll"
    /\ \/ \E size \in TermSizes :
             /\ renderer' = Some([ terminal_width |-> size[1],
                                   terminal_height |-> size[2] ])
             /\ Handled("resize")
       \/ /\ ReturnErr("io_error", "resize_err")
          /\ frame_delay' = None
          /\ UNCHANGED renderer
    /\ UNCHANGED << InputFrame, state, frame_iter, frame_count, sketchybar >>

Input ==
    \/ NoEvent \/ PollError \/ KeyQuit \/ KeyPause \/ KeySpeedUp
    \/ KeySpeedDown \/ KeyLoop \/ KeyHelp \/ KeyRestart \/ OtherEvent
    \/ EventResize

----------------------------------------------------------------------------
(* The playback loop, frame processing: main.rs:257-340 *)

\* frame processing that does not look at state.paused
PullsFrame_IgnoresPause(s) == ~s.show_help

\* main.rs:258-279: neither `continue` was taken, the loop goes on to
\* frame_iter.next()
PullsFrame(s) == ~s.show_help /\ ~s.paused

\* main.rs:258-273 the help overlay: display_message(..)?; continue
ShowHelp ==
    /\ pc = "gate"
    /\ state.show_help
    /\ \/ /\ pc' = "poll"
          /\ last' = "show_help"
          /\ UNCHANGED << result, exit_cause >>
       \/ ReturnErr("io_error", "show_help_err")
    /\ UNCHANGED << cli, loopVars, renderer, terminal, histVars, call,
                    invalid_arguments, sketchybar, frame_delay >>

\* main.rs:276-279 paused: sleep(50ms); continue
PausedSleep ==
    /\ pc = "gate"
    /\ ~state.show_help
    /\ state.paused
    /\ pc' = "poll"
    /\ last' = "paused_sleep"
    /\ UNCHANGED << cli, loopVars, renderer, terminal, histVars, call,
                    invalid_arguments, sketchybar,
                    result, exit_cause, frame_delay >>

\* main.rs:282-283 frame_iter.next() is Some(Ok(frame))
NextFrameOk ==
    /\ pc = "gate"
    /\ PullsFrame(state)
    /\ \E o \in IterNext(frame_iter[1]) :
          /\ o.kind = "frame"
          /\ frame_iter' = Some(o.iter)
          /\ frame' = o.frame
    /\ pc' = "convert"
    /\ last' = "next_frame"
    /\ UNCHANGED << cli, state, ascii_frame, frame_count, renderer, terminal,
                    histVars, call, invalid_arguments, sketchybar, result,
                    exit_cause, frame_delay >>

\* main.rs:284-289 frame_iter.next() is Some(Err(e)): display_error(..)?,
\* sleep, break
NextFrameErr ==
    /\ pc = "gate"
    /\ PullsFrame(state)
    /\ \E o \in IterNext(frame_iter[1]) :
          /\ o.kind = "error"
          /\ frame_iter' = Some(o.iter)
    /\ error_displayed' = error_displayed + 1
    /\ \/ /\ pc' = "cleanup"
          /\ exit_cause' = "source_error"
          /\ last' = "next_frame_err"
          /\ UNCHANGED result
       \/ \* display_error fails
          ReturnErr("source_error", "next_frame_err")
    /\ UNCHANGED << cli, state, frame, ascii_frame, frame_count, renderer,
                    terminal, init_called, cleanups, call, invalid_arguments,
                    sketchybar, frame_delay >>

\* a loop that forgets frame_count = 0
EndOfVideoLoop_KeepsCount ==
    /\ pc = "gate"
    /\ PullsFrame(state)
    /\ \E o \in IterNext(frame_iter[1]) : o.kind = "end"
    /\ state.loop_enabled
    /\ \/ /\ frame_iter' = Some(Reopen(cli))
          /\ pc' = "poll"
          /\ last' = "end_loop"
          /\ UNCHANGED << frame_count, result, exit_cause >>
       \/ /\ ReturnErr("reopen_error", "end_loop_err")
          /\ UNCHANGED << frame_iter, frame_count >>
    /\ UNCHANGED << cli, state, frame, ascii_frame, renderer, terminal,
                    histVars, call, invalid_arguments, sketchybar,
                    frame_delay >>

\* main.rs:290-296 frame_iter.next() is None and state.loop_enabled:
\* load_video(..)?; frame_count = 0; continue
EndOfVideoLoop ==
    /\ pc = "gate"
    /\ PullsFrame(state)
    /\ \E o \in IterNext(frame_iter[1]) : o.kind = "end"
    /\ state.loop_enabled
    /\ \/ /\ frame_iter' = Some(Reopen(cli))
          /\ frame_count' = 0
          /\ pc' = "poll"
          /\ last' = "end_loop"
          /\ UNCHANGED << result, exit_cause >>
       \/ \* load_video(..)? fails: main returns Err
          /\ ReturnErr("reopen_error", "end_loop_err")
          /\ UNCHANGED << frame_iter, frame_count >>
    /\ UNCHANGED << cli, state, frame, ascii_frame, renderer, terminal,
                    histVars, call, invalid_arguments, sketchybar,
                    frame_delay >>

\* an end of the video that does not leave the loop
EndOfVideoBreak_KeepsPolling ==
    /\ pc = "gate"
    /\ PullsFrame(state)
    /\ \E o \in IterNext(frame_iter[1]) :
          /\ o.kind = "end"
          /\ frame_iter' = Some(o.iter)
    /\ ~state.loop_enabled
    /\ pc' = "poll"
    /\ last' = "end_break"
    /\ UNCHANGED << cli, state, frame, ascii_frame, frame_count, renderer,
                    terminal, histVars, call, invalid_arguments, sketchybar,
                    result, exit_cause, frame_delay >>

\* main.rs:290-300 frame_iter.next() is None and not state.loop_enabled:
\* break
EndOfVideoBreak ==
    /\ pc = "gate"
    /\ PullsFrame(state)
    /\ \E o \in IterNext(frame_iter[1]) :
          /\ o.kind = "end"
          /\ frame_iter' = Some(o.iter)
    /\ ~state.loop_enabled
    /\ pc' = "cleanup"
    /\ exit_cause' = "end_of_video"
    /\ last' = "end_break"
    /\ UNCHANGED << cli, state, frame, ascii_frame, frame_count, renderer,
                    terminal, histVars, call, invalid_arguments, sketchybar,
                    result, frame_delay >>

\* main.rs:305-314 renderer.dimensions(), converter.convert_frame(..)
\* (converter.rs:70-92, 171-179: the frame's size and identity)
Convert ==
    /\ pc = "convert"
    /\ LET f == frame[1]
           r == renderer[1]
           target == CalculateTargetDimensions(f.width, f.height,
                         r.terminal_width, r.terminal_height)
       IN  ascii_frame' = Some([ width |-> target[1], height |-> target[2],
                                 timestamp |-> f.timestamp,
                                 index |-> f.index ])
    /\ pc' = "render"
    /\ last' = "convert"
    /\ UNCHANGED << cli, state, frame_iter, frame, frame_count, renderer,
                    terminal, histVars, call, invalid_arguments, sketchybar,
                    result, exit_cause, frame_delay >>

\* the delay of the speed given on the command line
FrameDelayOf_InitialSpeed(c, s) ==
    CalculateFrameDelay(RatMul(EffectiveFps(c), c.speed), << 1, 1 >>)

\* main.rs:335-336 target_fps = effective_fps * state.speed;
\* frame_delay = calculate_frame_delay(target_fps, 1.0), in milliseconds
FrameDelayOf(c, s) ==
    CalculateFrameDelay(RatMul(EffectiveFps(c), s.speed), << 1, 1 >>)

\* main.rs:330-339 render_frame_with_status(..)?; frame_count += 1;
\* sleep(frame_delay), which lasts until the next iteration polls.
\* The frame and its conversion go out of scope at the end of the iteration.
Render ==
    /\ pc = "render"
    /\ \/ /\ frame_count' = frame_count + 1
          /\ frame_delay' = Some(FrameDelayOf(cli, state))
          /\ frame' = None
          /\ ascii_frame' = None
          /\ pc' = "poll"
          /\ last' = "render"
          /\ UNCHANGED << result, exit_cause >>
       \/ /\ ReturnErr("io_error", "render_err")
          /\ UNCHANGED << frame, ascii_frame, frame_count, frame_delay >>
    /\ UNCHANGED << cli, state, frame_iter, renderer, terminal, histVars,
                    call, invalid_arguments, sketchybar >>

----------------------------------------------------------------------------
(* Leaving main: main.rs:342-353 and Drop for Renderer, renderer.rs:266-271 *)

\* main.rs:344-352 renderer.cleanup()?, then sb.clear()?, then Ok(())
Cleanup ==
    /\ pc = "cleanup"
    /\ cleanups' = cleanups + 1
    /\ \E ok \in BOOLEAN :
          /\ terminal' = RendererCleanup(terminal, ok)
          /\ result' = IF ok THEN "ok" ELSE "err"
          /\ last' = IF ok THEN "cleanup" ELSE "cleanup_err"
          /\ IF ok
             THEN \E sent \in BOOLEAN :
                     sketchybar' = UpdateStatus(sketchybar, "", sent)
             ELSE UNCHANGED sketchybar
    /\ pc' = "drop"
    /\ UNCHANGED << cli, loopVars, renderer, init_called, error_displayed,
                    exit_cause, call, invalid_arguments, frame_delay >>

\* main returns and its locals go out of scope: the Renderer
\* (renderer.rs:266-271 let _ = self.cleanup()), then the notifier declared
\* before it (main.rs:64-68 let _ = self.clear())
DropRenderer ==
    /\ pc = "drop"
    /\ cleanups' = cleanups + 1
    /\ \E ok \in BOOLEAN : terminal' = RendererCleanup(terminal, ok)
    /\ \E sent \in BOOLEAN : sketchybar' = UpdateStatus(sketchybar, "", sent)
    /\ pc' = "exited"
    /\ last' = "drop"
    /\ UNCHANGED << cli, loopVars, renderer, init_called, error_displayed,
                    exit_cause, result, call, invalid_arguments, frame_delay >>

Next ==
    \/ ValidateArgs
    \/ RendererNew \/ RendererInit \/ DisplayLoading \/ LoadInitial
    \/ Input
    \/ ShowHelp \/ PausedSleep
    \/ NextFrameOk \/ NextFrameErr \/ EndOfVideoLoop \/ EndOfVideoBreak
    \/ Convert \/ Render
    \/ Cleanup \/ DropRenderer

Spec == Init /\ [][Next]_vars

----------------------------------------------------------------------------
(* main with the status notifier configured *)

\* The command lines of the sessions run with --sketchybar-item: speed 1,
\* no time range, an existing or a missing file.
NotifierClis ==
    { c \in ParsedClis({ Some("item") }) :
        /\ c.speed = << 1, 1 >>
        /\ c.width = None /\ c.height = None /\ c.fps = None
        /\ c.start_time = None /\ c.end_time = None }

InitNotifier == \E c \in NotifierClis : MainEntry(c)

SpecNotifier == InitNotifier /\ [][Next]_vars

----------------------------------------------------------------------------
(* main with an explicit terminal size or a frame rate given *)

\* cli.rs:130-143 get_terminal_size() where terminal::size() reports
\* `detected`: an explicit --width or --height replaces the detected one.
\* main never calls it.
GetTerminalSize(c, detected) ==
    << IF c.width # None THEN c.width[1] ELSE detected[1],
       IF c.height # None THEN c.height[1] ELSE detected[2] >>

\* The command lines of the sessions run with --width, --height or --fps
\* (cli.rs:29, 33, 49): speed 1, no time range, an existing or a missing
\* file.
OptionClis ==
    [ file_exists : BOOLEAN, speed : { << 1, 1 >> },
      loop_playback : BOOLEAN,
      width : { None, Some(2) }, height : { None, Some(1) },
      fps : { None, Some(<< 24, 1 >>) },
      start_time : { None }, end_time : { None },
      sketchybar_item : { None } ]

InitOptions == \E c \in OptionClis : MainEntry(c)

SpecOptions == InitOptions /\ [][Next]_vars

----------------------------------------------------------------------------
(* main as a running process: it always goes on to its next statement.     *)
(* event::poll returns after 1 ms (main.rs:198) and the sleeps end         *)
(* (main.rs:277, 287, 339), so a step of main that is possible is taken.   *)

\* The command lines of these sessions: speed 1, looping or not, the whole
\* video or --end-time 0, which leaves no frame to play.
LiveClis ==
    [ file_exists : BOOLEAN, speed : { << 1, 1 >> },
      loop_playback : BOOLEAN, width : { None }, height : { None },
      fps : { None }, start_time : { None }, end_time : { None, Some(0) },
      sketchybar_item : { None } ]

InitLive == \E c \in LiveClis : MainEntry(c)

SpecLive == InitLive /\ [][Next]_vars /\ WF_vars(Next)

----------------------------------------------------------------------------
(* A call of calculate_target_dimensions on its own *)

\* Source sizes (u32) and terminal sizes (u16, at least 1) of the calls.
SrcSizes == { 1, 2, 100, 200, 1920, 16383 }
TermDims == { 1, 2, 20, 40, 80, 65535 }

\* main is not running.
Idle ==
    /\ cli = [ file_exists |-> TRUE, speed |-> << 1, 1 >>,
               loop_playback |-> FALSE, width |-> None, height |-> None,
               fps |-> None, start_time |-> None, end_time |-> None,
               sketchybar_item |-> None ]
    /\ state = InitialState(cli)
    /\ pc = "idle"
    /\ frame_iter = None
    /\ frame = None
    /\ ascii_frame = None
    /\ frame_count = 0
    /\ renderer = None
    /\ terminal = [ raw |-> FALSE, cursor_hidden |-> FALSE ]
    /\ last = "start"
    /\ init_called = FALSE
    /\ cleanups = 0
    /\ error_displayed = 0
    /\ exit_cause = "none"
    /\ result = "running"
    /\ invalid_arguments = None
    /\ sketchybar = None
    /\ frame_delay = None

mainVars == << cli, state, pc, frame_iter, frame, ascii_frame, frame_count,
               renderer, terminal, last, init_called, cleanups,
               error_displayed, exit_cause, result, invalid_arguments,
               sketchybar, frame_delay >>

InitSizing ==
    /\ Idle
    /\ \E sw \in SrcSizes, sh \in SrcSizes, tw \in TermDims, th \in TermDims :
          call = [ fn |-> "calculate_target_dimensions",
                   src_width |-> sw, src_height |-> sh,
                   term_width |-> tw, term_height |-> th, ret |-> None ]

\* converter.rs:80-83 the call of calculate_target_dimensions
CallCalculateTargetDimensions ==
    /\ call.fn = "calculate_target_dimensions"
    /\ call.ret = None
    /\ call' = [ call EXCEPT !.ret = Some(CalculateTargetDimensions(
                     call.src_width, call.src_height,
                     call.term_width, call.term_height)) ]
    /\ UNCHANGED mainVars

NextSizing == CallCalculateTargetDimensions

SpecSizing == InitSizing /\ [][NextSizing]_vars

----------------------------------------------------------------------------
(* A call of calculate_frame_delay on its own *)

\* Frame rates and speed multipliers (f64 values that are exact) of the calls
FrameRates ==
    { << n, 1 >> : n \in { 1, 10, 15, 24, 25, 30, 48, 50, 60, 120, 125, 144,
                           240, 1000, 2000 } }
SpeedMultipliers ==
    { << 1, 4 >>, << 1, 2 >>, << 1, 1 >>, << 5, 4 >>, << 2, 1 >>, << 4, 1 >> }

InitFrameDelay ==
    /\ Idle
    /\ \E f \in FrameRates, m \in SpeedMultipliers :
          call = [ fn |-> "calculate_frame_delay", target_fps |-> f,
                   speed_multiplier |-> m, ret |-> None ]

\* renderer.rs:283 a call of calculate_frame_delay
CallCalculateFrameDelay ==
    /\ call.fn = "calculate_frame_delay"
    /\ call.ret = None
    /\ call' = [ call EXCEPT !.ret = Some(CalculateFrameDelay(
                     call.target_fps, call.speed_multiplier)) ]
    /\ UNCHANGED mainVars

NextFrameDelay == CallCalculateFrameDelay

SpecFrameDelay == InitFrameDelay /\ [][NextFrameDelay]_vars

----------------------------------------------------------------------------
(* A call of calculate_luminance on its own *)

InitLuminance ==
    /\ Idle
    /\ \E r \in Channels, g \in Channels, b \in Channels :
          call = [ fn |-> "calculate_luminance", r |-> r, g |-> g, b |-> b,
                   ret |-> None ]

\* converter.rs:116 a call of calculate_luminance
CallCalculateLuminance ==
    /\ call.fn = "calculate_luminance"
    /\ call.ret = None
    /\ call' = [ call EXCEPT !.ret =
                     Some(CalculateLuminance(call.r, call.g, call.b)) ]
    /\ UNCHANGED mainVars

NextLuminance == CallCalculateLuminance

SpecLuminance == InitLuminance /\ [][NextLuminance]_vars

----------------------------------------------------------------------------
(* A call of luminance_to_char_index on its own *)

\* Ramps of 1 .. MaxRampLen glyphs.
MaxRampLen == 12

InitCharIndex ==
    /\ Idle
    /\ \E l \in 0 .. 255, n \in 1 .. MaxRampLen :
          call = [ fn |-> "luminance_to_char_index", luminance |-> l,
                   len |-> n, ret |-> None ]

\* converter.rs:132 a call of luminance_to_char_index
CallLuminanceToCharIndex ==
    /\ call.fn = "luminance_to_char_index"
    /\ call.ret = None
    /\ call' = [ call EXCEPT !.ret =
                     Some(LuminanceToCharIndex(call.luminance, call.len)) ]
    /\ UNCHANGED mainVars

NextCharIndex == CallLuminanceToCharIndex

SpecCharIndex == InitCharIndex /\ [][NextCharIndex]_vars

----------------------------------------------------------------------------
(* A call of convert_frame on its own *)

\* converter.rs:50 the default ramp, and a ramp of one glyph
DefaultRamp == << " ", ".", ":", "-", "=", "+", "*", "#", "%", "@" >>
Ramps == { DefaultRamp, << "#" >> }

\* brightness and contrast: the defaults (converter.rs:52-53), and +0.5
Adjustments ==
    { [ brightness |-> << 0, 1 >>, contrast |-> << 1, 1 >> ],
      [ brightness |-> << 1, 2 >>, contrast |-> << 1, 1 >> ] }

\* ConversionConfig (converter.rs:27-42)
Configs ==
    { [ palette |-> p, transparent |-> t, alpha_threshold |-> a,
        ascii_chars |-> r, brightness |-> j.brightness,
        contrast |-> j.contrast ] :
      p \in { "ascii", "grayscale", "color" }, t \in BOOLEAN,
      a \in { None, Some(128) }, r \in Ramps, j \in Adjustments }

\* The pixels of the source images: image i repeats Patterns[i].
Patterns ==
    << << << 50, 50, 50 >> >>,
       << << 128, 128, 128 >>, << 0, 0, 0 >> >>,
       << << 255, 0, 0 >>, << 255, 255, 255 >> >> >>

\* VideoFrame.data (decoder.rs:19-31): len bytes of the RGB24 image that
\* repeats pattern
PixelData(pattern, len) ==
    [ i \in 1 .. len |->
        pattern[(((i - 1) \div 3) % Len(pattern)) + 1][((i - 1) % 3) + 1] ]

\* Buffer lengths for a frame of n pixels: empty, cut inside a pixel, cut
\* between pixels, complete, too long.
DataLens(n) == { 0, 1, 3 * n - 2, 3 * n, 3 * n + 1 } \cup { 3 * (n \div 2) }

\* VideoFrame values: sizes 1x1, 2x2, 4x2
VideoFrames ==
    { [ width |-> d[1], height |-> d[2], data |-> PixelData(Patterns[i], n) ] :
      d \in { << 1, 1 >>, << 2, 2 >>, << 4, 2 >> }, i \in 1 .. Len(Patterns),
      n \in 0 .. 25 }

\* The calls with small terminals: every configuration, every frame
\* whose buffer length is one of DataLens.
SmallCalls ==
    { [ frame |-> f, terminal |-> t, config |-> c, overflow_checks |-> o ] :
      f \in { v \in VideoFrames :
                Len(v.data) \in DataLens(v.width * v.height) },
      t \in { << 1, 1 >>, << 3, 2 >> },
      c \in Configs, o \in BOOLEAN }

\* The calls with a terminal of 10 x 10 cells: every configuration, a 1x1
\* frame with its pixel or with no data.
MediumCalls ==
    { [ frame |-> f, terminal |-> << 10, 10 >>, config |-> c,
        overflow_checks |-> o ] :
      f \in { v \in VideoFrames : v.width = 1 /\ Len(v.data) \in { 0, 3 } },
      c \in Configs, o \in BOOLEAN }

\* The calls with a terminal of 220 x 100 cells: the default configuration
\* in colour, the complete 4x2 frame of red and white pixels.
LargeCalls ==
    { [ frame |-> f, terminal |-> << 220, 100 >>, config |-> c,
        overflow_checks |-> o ] :
      f \in { v \in VideoFrames :
                v.width = 4 /\ v.data = PixelData(Patterns[3], 24) },
      c \in { k \in Configs : /\ k.palette = "color" /\ ~k.transparent
                               /\ k.alpha_threshold = None
                               /\ k.ascii_chars = DefaultRamp
                               /\ k.brightness = << 0, 1 >> },
      o \in BOOLEAN }

InitConvert ==
    /\ Idle
    /\ \E a \in SmallCalls \cup MediumCalls \cup LargeCalls :
          call = [ fn |-> "convert_frame", frame |-> a.frame,
                   terminal_width |-> a.terminal[1],
                   terminal_height |-> a.terminal[2], config |-> a.config,
                   overflow_checks |-> a.overflow_checks,
                   at |-> "entry", target |-> << 0, 0 >>, x |-> 0, y |-> 0,
                   characters_len |-> 0, fg_colors_len |-> 0,
                   bg_colors_len |-> None, nonblank |-> 0, cell |-> None ]

\* converter.rs:76-101 the target size, the resized data, the vectors with
\* their capacity target_width * target_height computed in u16
ConvertFrameEnter ==
    /\ call.fn = "convert_frame"
    /\ call.at = "entry"
    /\ LET target == CalculateTargetDimensions(call.frame.width,
                         call.frame.height, call.terminal_width,
                         call.terminal_height)
       IN  IF U16Panics(target[1] * target[2], call.overflow_checks)
           THEN call' = [ call EXCEPT !.at = "panicked", !.target = target ]
           ELSE call' = [ call EXCEPT !.at = "cells", !.target = target,
                             !.bg_colors_len = BgColorsNew(call.config) ]
    /\ UNCHANGED mainVars

\* converter.rs:103-169 one iteration of the loops: the cell (x, y) is
\* pushed; pixel_index = ((y * target_width + x) * 3) in u16
ConvertFrameCell ==
    /\ call.fn = "convert_frame"
    /\ call.at = "cells"
    /\ call.y < call.target[2]
    /\ LET tw == call.target[1]
           th == call.target[2]
           row == call.y * tw
           cell_index == U16Wrap(row) + call.x
           times3 == U16Wrap(cell_index) * 3
           pixel_index == U16Wrap(times3)
           c == CellAt(call.config, call.frame, tw, th, pixel_index)
       IN  IF \/ U16Panics(row, call.overflow_checks)
              \/ U16Panics(cell_index, call.overflow_checks)
              \/ U16Panics(times3, call.overflow_checks)
           THEN call' = [ call EXCEPT !.at = "panicked" ]
           ELSE call' =
                  [ call EXCEPT
                      !.characters_len = @ + 1,
                      !.fg_colors_len = @ + 1,
                      !.bg_colors_len =
                          IF @ = None THEN None ELSE Some(@[1] + 1),
                      !.nonblank = IF c.ch = " " THEN @ ELSE @ + 1,
                      !.cell = Some([ x |-> call.x, y |-> call.y,
                                      pixel_index |-> pixel_index,
                                      ch |-> c.ch, fg |-> c.fg,
                                      bg |-> c.bg ]),
                      !.x = IF call.x + 1 = tw THEN 0 ELSE call.x + 1,
                      !.y = IF call.x + 1 = tw THEN call.y + 1
                            ELSE call.y ]
    /\ UNCHANGED mainVars

\* converter.rs:171-179 Ok(AsciiFrame { .. })
ConvertFrameReturn ==
    /\ call.fn = "convert_frame"
    /\ call.at = "cells"
    /\ call.y = call.target[2]
    /\ call' = [ call EXCEPT !.at = "returned" ]
    /\ UNCHANGED mainVars

NextConvert == ConvertFrameEnter \/ ConvertFrameCell \/ ConvertFrameReturn

SpecConvert == InitConvert /\ [][NextConvert]_vars

----------------------------------------------------------------------------
(* A call of render_frame or render_frame_with_status on its own:          *)
(* src/renderer.rs:76-176.  The commands queued with queue! are counted,   *)
(* and the calls of self.stdout.flush().                                   *)

\* The frames (width, height) rendered.
RenderSizes == { << 1, 1 >>, << 2, 2 >>, << 3, 1 >> }

\* The calls: the entry point, the frame (its size, whether its glyphs are
\* spaces, whether it has background colours), the renderer's modes and
\* whether the status text is empty.
RenderCalls ==
    [ fn : { "render_frame", "render_frame_with_status" },
      size : RenderSizes, blank : BOOLEAN, bg_colors : BOOLEAN,
      transparent_mode : BOOLEAN, use_colors : BOOLEAN,
      status_empty : BOOLEAN ]

InitRender ==
    /\ Idle
    /\ \E c \in RenderCalls :
          call = [ fn |-> c.fn, width |-> c.size[1], height |-> c.size[2],
                   blank |-> c.blank, bg_colors |-> c.bg_colors,
                   transparent_mode |-> c.transparent_mode,
                   use_colors |-> c.use_colors,
                   status_empty |-> c.status_empty,
                   at |-> "entry", x |-> 0, y |-> 0,
                   queued |-> 0, flushes |-> 0, written |-> 0 ]

\* A queue! or flush() whose `?` returns the error.
RenderFails ==
    /\ call.at \in { "entry", "cells", "status" }
    /\ call' = [ call EXCEPT !.at = "failed" ]
    /\ UNCHANGED mainVars

\* renderer.rs:89 queue!(Clear(All))
RenderFrameEnter ==
    /\ call.fn \in { "render_frame", "render_frame_with_status" }
    /\ call.at = "entry"
    /\ call' = [ call EXCEPT !.at = "cells", !.queued = call.queued + 1 ]
    /\ UNCHANGED mainVars

\* renderer.rs:100-124: the commands queued for one cell
CellCommands(c) ==
    IF c.transparent_mode /\ c.blank
    THEN 1                                            \* MoveTo, continue
    ELSE 1                                            \* MoveTo
         + ( IF c.use_colors
             THEN 1                                   \* SetForegroundColor
                  + ( IF ~c.transparent_mode /\ c.bg_colors
                      THEN 1 ELSE 0 )                 \* SetBackgroundColor
             ELSE 0 )
         + 1                                          \* Print

\* renderer.rs:92-126: one turn of the loops over y and x
RenderFrameCell ==
    /\ call.at = "cells"
    /\ call.y < call.height
    /\ call' = [ call EXCEPT
                   !.queued = call.queued + CellCommands(call),
                   !.x = IF call.x + 1 = call.width THEN 0 ELSE call.x + 1,
                   !.y = IF call.x + 1 = call.width
                         THEN call.y + 1 ELSE call.y ]
    /\ UNCHANGED mainVars

\* renderer.rs:129-133: ResetColor when colours are used, then flush();
\* render_frame returns (line 142), render_frame_with_status goes on
RenderFrameFlush ==
    /\ call.at = "cells"
    /\ call.y = call.height
    /\ LET queued == call.queued + (IF call.use_colors THEN 1 ELSE 0)
       IN  call' = [ call EXCEPT
                       !.flushes = call.flushes + 1,
                       !.written = call.written + queued,
                       !.queued = 0,
                       !.at = IF call.fn = "render_frame"
                              THEN "returned" ELSE "status" ]
    /\ UNCHANGED mainVars

\* renderer.rs:150-172: the commands of the status line
StatusCommands(c) == 2 + (IF c.use_colors THEN 3 ELSE 0)

\* renderer.rs:149-175: the status line, queued and flushed when the text is
\* not empty
RenderStatus ==
    /\ call.at = "status"
    /\ IF call.status_empty
       THEN call' = [ call EXCEPT !.at = "returned" ]
       ELSE call' = [ call EXCEPT
                        !.flushes = call.flushes + 1,
                        !.written = call.written + StatusCommands(call),
                        !.queued = 0,
                        !.at = "returned" ]
    /\ UNCHANGED mainVars

NextRender ==
    \/ RenderFrameEnter \/ RenderFrameCell \/ RenderFrameFlush
    \/ RenderStatus \/ RenderFails

SpecRender == InitRender /\ [][NextRender]_vars

----------------------------------------------------------------------------
(* A FrameIterator session on its own: load_video, then calls of next()    *)

\* Number of next() calls of a session.
MaxCalls == 6

\* The time bounds (ticks) the sessions are opened with.
IterStartTimes == { None, Some(0), Some(2) }
IterEndTimes == { None, Some(3) }

\* decoder.rs:285-288 load_video: a new iterator; the history of its calls:
\* the calls of next(), of seek_to (all, and those that returned Ok), of
\* next_frame, the last item returned, whether the last call's seek failed
\* and whether seek_to was ever called after next_frame.
InitIterator ==
    /\ Idle
    /\ \E s \in IterStartTimes, e \in IterEndTimes :
          call = [ fn |-> "FrameIterator::next", iter |-> LoadVideo(s, e),
                   calls |-> 0, seeks |-> 0, seeks_ok |-> 0, decodes |-> 0,
                   item |-> "none", seek_failed |-> FALSE,
                   seek_after_decode |-> FALSE ]

\* decoder.rs:257-281 one call of next()
CallIterNext ==
    /\ call.fn = "FrameIterator::next"
    /\ call.calls < MaxCalls
    /\ \E o \in IterNext(call.iter) :
          call' = [ call EXCEPT
                      !.iter = o.iter,
                      !.calls = @ + 1,
                      !.seeks = IF o.seek # "none" THEN @ + 1 ELSE @,
                      !.seeks_ok = IF o.seek = "done" THEN @ + 1 ELSE @,
                      !.decodes = IF o.decoded THEN @ + 1 ELSE @,
                      !.item = o.kind,
                      !.seek_failed = (o.seek = "failed"),
                      !.seek_after_decode =
                          @ \/ (o.seek # "none" /\ call.decodes > 0) ]
    /\ UNCHANGED mainVars

NextIterator == CallIterNext

SpecIterator == InitIterator /\ [][NextIterator]_vars

----------------------------------------------------------------------------
(* Properties *)

Terminated == pc \in { "cleanup", "drop", "exited" }

\* C1: after every speed-up or speed-down key event PlaybackState.speed is
\* within [0.25, 4.0], whatever speed (> 0) the command line gave.
C1_SpeedStaysInRange ==
    last \in { "key_speed_up", "key_speed_down" } => InSpeedRange(state.speed)

\* C2: in every session in which Renderer::init() was called, cleanup() has
\* been executed exactly once when the process has ended.
C2_CleanupExactlyOnce ==
    (pc = "exited" /\ init_called) => cleanups = 1

\* C3: whenever the process has ended after Renderer::init() was called,
\* cleanup() has run at least once and the terminal is no longer in raw mode.
C3_TerminalRestoredOnExit ==
    (pc = "exited" /\ init_called) => (cleanups >= 1 /\ ~terminal.raw)

\* C4: a quit key can be read in every state of the loop (playing, paused,
\* help overlay); the step that reads it sets quit_requested and leaves the
\* loop at once; from then on main only cleans up and exits: no frame is
\* pulled, converted or rendered, no input is handled, quit_requested stays.
C4_QuitIsAbsorbing ==
    /\ [](pc = "poll" => ENABLED KeyQuit)
    /\ [][ /\ (pc = "poll" /\ last' = "key_quit")
              => (state'.quit_requested /\ pc' = "cleanup")
           /\ state.quit_requested
              => /\ pc' \in { "drop", "exited" }
                 /\ UNCHANGED << state, frame_iter, frame, ascii_frame,
                                 frame_count, renderer >> ]_vars

\* C4 witness: main has exited after a quit read while paused with the help
\* overlay shown.
C4_Witness ==
    /\ pc = "exited"
    /\ state.quit_requested
    /\ state.paused
    /\ state.show_help

\* The steps of a loop iteration in which paused is true where the loop
\* reaches the code after the input match: the input step that ends with
\* paused set, and the step taken from there.
PausedIterationStep ==
    \/ pc = "poll" /\ pc' = "gate" /\ state'.paused
    \/ pc = "gate" /\ state.paused

\* C5, as claimed: the pause key toggles paused, and in every loop iteration
\* in which paused is true no frame is pulled, converted or rendered,
\* frame_count is unchanged and the frame source keeps its position.
C5_PausedIterationChangesNothing ==
    [][ /\ (pc = "poll" /\ last' = "key_pause")
           => state'.paused = ~state.paused
        /\ PausedIterationStep
           => /\ pc' \notin { "convert", "render" }
              /\ UNCHANGED << frame, ascii_frame >>
              /\ frame_count' = frame_count
              /\ frame_iter' = frame_iter ]_vars

\* C5, amended: as claimed, except that the restart key is handled while
\* paused too: the iteration that handles it reopens the source and sets
\* frame_count to 0; in every other paused iteration frame_count and the
\* frame source are unchanged.
C5_PausedIterationPullsNoFrame ==
    [][ /\ (pc = "poll" /\ last' = "key_pause")
           => state'.paused = ~state.paused
        /\ PausedIterationStep
           => /\ pc' \notin { "convert", "render" }
              /\ UNCHANGED << frame, ascii_frame >>
              /\ IF pc = "poll" /\ last' = "key_restart"
                 THEN frame_count' = 0 /\ frame_iter' = Some(Reopen(cli))
                 ELSE frame_count' = frame_count /\ frame_iter' = frame_iter
      ]_vars

\* C5 witness: a paused iteration has ended in the 50 ms sleep after frames
\* were rendered, the source standing behind the last frame rendered.
C5_Witness ==
    /\ pc = "poll"
    /\ last = "paused_sleep"
    /\ state.paused
    /\ frame_count = 2
    /\ frame_iter[1].pos = 2

\* next() of the iterator would return None
Exhausted(it) == \E o \in IterNext(it) : o.kind = "end"

\* C6: when the frame source is exhausted while playing and the reopening
\* does not fail: with loop_enabled (its current value) the source is
\* reopened from the configured start time, frame_count becomes 0 and the
\* loop goes on; without it the loop is left and no frame is rendered any
\* more.  Once main has left the loop it never returns to it.
C6_ExhaustionLoopsOrTerminates ==
    [][ /\ ( /\ pc = "gate"
             /\ PullsFrame(state)
             /\ Exhausted(frame_iter[1])
             /\ last' \notin { "next_frame_err", "end_loop_err" } )
           => IF state.loop_enabled
              THEN /\ last' = "end_loop"
                   /\ frame_iter' =
                          Some(LoadVideo(cli.start_time, cli.end_time))
                   /\ frame_count' = 0
                   /\ pc' = "poll"
                   /\ state' = state
              ELSE /\ last' = "end_break"
                   /\ pc' = "cleanup"
                   /\ UNCHANGED << frame, ascii_frame, frame_count, state >>
        /\ last' \in { "end_loop", "end_break" }
           => (pc = "gate" /\ Exhausted(frame_iter[1]))
        /\ Terminated => pc' \in { "drop", "exited" }
      ]_vars

\* C6 witness: the source was reopened at the end of the video because the
\* loop key had switched looping on during playback.
C6_Witness ==
    /\ last = "end_loop"
    /\ ~cli.loop_playback
    /\ state.loop_enabled
    /\ frame_count = 0
    /\ frame_iter[1].pos = 0

\* The index of the first frame a session decodes (after its seek).
FirstFrame(it) == AfterSeek(it).pos

C8_SourceErrorIsDisplayed ==
    (pc = "exited" /\ exit_cause \in { "load_error", "source_error",
                                       "reopen_error" })
    => error_displayed >= 1

\* C9: with an end time, every frame the iterator yields, and so every frame
\* converted or rendered, has a timestamp below it; the first frame decoded
\* at or past the end time ends the stream: the iterator is not asked again.
C9_EndTimeIsExclusive ==
    /\ \A f \in { frame, ascii_frame } :
          (f # None /\ cli.end_time # None)
          => f[1].timestamp < cli.end_time[1]
    /\ ( /\ frame_iter # None
         /\ frame_iter[1].end_time # None
         /\ frame_iter[1].pos > FirstFrame(LoadVideo(cli.start_time,
                                                      cli.end_time))
         /\ Timestamp(frame_iter[1].pos - 1) >= frame_iter[1].end_time[1] )
       => (Terminated /\ exit_cause = "end_of_video")

\* C9 witness: playback ended at the end time, before the video's last frame.
C9_Witness ==
    /\ pc = "cleanup"
    /\ exit_cause = "end_of_video"
    /\ cli.end_time # None
    /\ frame_iter[1].pos < NumFrames
    /\ frame_count = 2

\* C10: for source and terminal sizes of at least 1, the target size is
\* within 1 .. term_width by 1 .. term_height.
C10_TargetWithinTerminal ==
    (call.fn = "calculate_target_dimensions" /\ call.ret # None)
    => /\ 1 <= call.ret[1][1]
       /\ call.ret[1][1] <= call.term_width
       /\ 1 <= call.ret[1][2]
       /\ call.ret[1][2] <= call.term_height

\* C10 witness: source 200x100 into terminal 40x40 (the repository's test):
\* the fit-to-height branch computes width 160, capped at 40.
C10_Witness ==
    /\ call.fn = "calculate_target_dimensions"
    /\ call.src_width = 200
    /\ call.src_height = 100
    /\ call.term_width = 40
    /\ call.term_height = 40
    /\ call.ret = Some(<< 40, 40 >>)

\* C12: calculate_frame_delay(target_fps, speed) is 33 ms for (30, 1.0),
\* 16 ms for (30, 2.0), 66 ms for (30, 0.5), and for every integer product
\* P = target_fps * speed > 0 it is floor(1000 / P): the d with
\* d * P <= 1000 < (d + 1) * P.
C12_FrameDelayTruncates ==
    (call.fn = "calculate_frame_delay" /\ call.ret # None)
    => LET P == RatMul(call.target_fps, call.speed_multiplier)
           d == call.ret[1]
       IN  /\ P = << 30, 1 >> => d = 33
           /\ P = << 60, 1 >> => d = 16
           /\ P = << 15, 1 >> => d = 66
           /\ P[2] = 1 => (d * P[1] <= 1000 /\ 1000 < (d + 1) * P[1])

\* C12 witness: the call (30, 2.0) has returned 16: 1000/60 = 16.67 cut off.
C12_Witness ==
    /\ call.fn = "calculate_frame_delay"
    /\ call.target_fps = << 30, 1 >>
    /\ call.speed_multiplier = << 2, 1 >>
    /\ call.ret = Some(16)

\* C18: for every RGB triple the luminance is within 0 .. 255, is 0 for
\* black and 255 for white, is strictly between for pure red, is the
\* weighted sum 0.2126 r + 0.7152 g + 0.0722 b rounded to a nearest integer,
\* and raising any single channel never lowers it.
C18_LuminanceBoundedMonotonic ==
    (call.fn = "calculate_luminance" /\ call.ret # None)
    => LET l == call.ret[1]
           sum == 2126 * call.r + 7152 * call.g + 722 * call.b
       IN  /\ l \in 0 .. 255
           /\ (call.r = 0 /\ call.g = 0 /\ call.b = 0) => l = 0
           /\ (call.r = 255 /\ call.g = 255 /\ call.b = 255) => l = 255
           /\ (call.r = 255 /\ call.g = 0 /\ call.b = 0) => (0 < l /\ l < 255)
           /\ 10000 * l - sum <= 5000
           /\ sum - 10000 * l <= 5000
           /\ \A c \in Channels :
                 /\ c >= call.r => CalculateLuminance(c, call.g, call.b) >= l
                 /\ c >= call.g => CalculateLuminance(call.r, c, call.b) >= l
                 /\ c >= call.b => CalculateLuminance(call.r, call.g, c) >= l

\* C18 witness: pure red has luminance 54.
C18_Witness ==
    /\ call.fn = "calculate_luminance"
    /\ call.r = 255 /\ call.g = 0 /\ call.b = 0
    /\ call.ret = Some(54)

\* C19: for a ramp of n >= 1 glyphs and a luminance L in 0 .. 255 the index
\* is within 0 .. n-1, is 0 for L = 0 and n-1 for L = 255, and no lower
\* luminance gets a higher index.
C19_CharIndexBoundedMonotonic ==
    (call.fn = "luminance_to_char_index" /\ call.ret # None)
    => LET i == call.ret[1]
       IN  /\ 0 <= i /\ i <= call.len - 1
           /\ call.luminance = 0 => i = 0
           /\ call.luminance = 255 => i = call.len - 1
           /\ \A l \in 0 .. call.luminance :
                 LuminanceToCharIndex(l, call.len) <= i

\* C19 witness: luminance 128 on a ramp of 10 glyphs is index 5
\* (128/255 * 9 = 4.52).
C19_Witness ==
    /\ call.fn = "luminance_to_char_index"
    /\ call.luminance = 128
    /\ call.len = 10
    /\ call.ret = Some(5)

\* C11: every AsciiFrame convert_frame returns has as many characters and
\* foreground colours as width * height > 0 cells; it has background
\* colours exactly when config.transparent is false, and then as many.
C11_AsciiFrameIsComplete ==
    (call.fn = "convert_frame" /\ call.at = "returned")
    => LET cells == call.target[1] * call.target[2]
       IN  /\ cells > 0
           /\ call.characters_len = cells
           /\ call.fg_colors_len = cells
           /\ (call.bg_colors_len # None) <=> ~call.config.transparent
           /\ call.bg_colors_len # None => call.bg_colors_len[1] = cells

\* C11 witness: a frame of 22000 cells with background colours has been
\* returned from a buffer of 24 bytes.
C11_Witness ==
    /\ call.fn = "convert_frame"
    /\ call.at = "returned"
    /\ call.target = << 220, 100 >>
    /\ call.characters_len = 22000
    /\ call.bg_colors_len = Some(22000)

\* The call of the repository's transparency test: a complete frame of
\* (50, 50, 50) pixels, threshold 128, transparent, default adjustments.
IsTransparencyTest ==
    /\ call.config.transparent
    /\ call.config.alpha_threshold = Some(128)
    /\ call.config.brightness = << 0, 1 >>
    /\ Len(call.frame.data) = 3 * call.frame.width * call.frame.height
    /\ \A i \in 1 .. Len(call.frame.data) : call.frame.data[i] = 50

\* C13: with an alpha threshold, a cell whose adjusted pixel has the
\* integer average (r + g + b) / 3 below the threshold is a blank glyph
\* with black foreground and, unless transparent, black background, for
\* every palette and ramp; a cell with the average at or above it has the
\* ramp glyph of its luminance.  A frame of (50, 50, 50) pixels with
\* threshold 128 in transparent mode has no background colours and only
\* blank glyphs.
C13_AlphaThresholdBlanks ==
    /\ ( /\ call.fn = "convert_frame"
         /\ call.cell # None
         /\ call.config.alpha_threshold # None )
       => LET c == call.cell[1]
              adj == AdjustColor(call.config,
                        ResizedByte(call.frame, call.target[1],
                                    call.target[2], c.pixel_index),
                        ResizedByte(call.frame, call.target[1],
                                    call.target[2], c.pixel_index + 1),
                        ResizedByte(call.frame, call.target[1],
                                    call.target[2], c.pixel_index + 2))
              average == (adj[1] + adj[2] + adj[3]) \div 3
              ramp == call.config.ascii_chars
          IN  IF average < call.config.alpha_threshold[1]
              THEN /\ c.ch = " "
                   /\ c.fg = << 0, 0, 0 >>
                   /\ (c.bg = None) <=> call.config.transparent
                   /\ c.bg # None => c.bg = Some(<< 0, 0, 0 >>)
              ELSE c.ch = ramp[LuminanceToCharIndex(
                                   CalculateLuminance(adj[1], adj[2], adj[3]),
                                   Len(ramp)) + 1]
    /\ (call.fn = "convert_frame" /\ call.at = "returned"
           /\ IsTransparencyTest)
       => /\ call.bg_colors_len = None
          /\ call.nonblank = 0 /\ call.characters_len > 0

\* C13 witness: the transparency test on a 10 x 10 terminal with the ramp
\* of one glyph '#' has returned 100 blank cells.
C13_Witness ==
    /\ call.fn = "convert_frame"
    /\ call.at = "returned"
    /\ IsTransparencyTest
    /\ call.config.ascii_chars = << "#" >>
    /\ call.characters_len = 100
    /\ call.nonblank = 0
    /\ call.cell[1].ch = " "

\* C14: convert_frame never fails or aborts: for every buffer length, from
\* empty to longer than width * height * 3, and every terminal size of at
\* least 1 x 1 it returns Ok with a complete grid.
C14_ConvertNeverFails ==
    call.fn = "convert_frame"
    => /\ call.at # "panicked"
       /\ call.at = "returned"
          => call.characters_len = call.target[1] * call.target[2]

\* C15: a target cell whose source pixel is not wholly within the buffer
\* is a blank glyph with black foreground and, when there are background
\* colours, black background, for every palette, ramp, brightness and
\* contrast.
C15_MissingPixelsAreBlank ==
    ( /\ call.fn = "convert_frame"
      /\ call.cell # None
      /\ SrcIndex(call.frame, call.target[1], call.target[2],
                  call.cell[1].x, call.cell[1].y) + 2 >= Len(call.frame.data) )
    => /\ call.cell[1].ch = " "
       /\ call.cell[1].fg = << 0, 0, 0 >>
       /\ call.cell[1].bg # None => call.cell[1].bg = Some(<< 0, 0, 0 >>)

\* The positions of main inside the playback loop.
LoopPcs == { "poll", "gate", "convert", "render" }

\* C16: a command line with a configuration error (missing file, speed <= 0,
\* explicit width or height 0, fps <= 0, a time bound below 0 or start >=
\* end) never gets past validate(): the process exits with status 1 and a
\* diagnostic, and no Renderer, frame source or loop iteration ever exists.
C16_ConfigErrorsStopBeforeRenderer ==
    ( \/ ~cli.file_exists
      \/ RatLeq(cli.speed, << 0, 1 >>)
      \/ cli.width = Some(0)
      \/ cli.height = Some(0)
      \/ (cli.fps # None /\ RatLeq(cli.fps[1], << 0, 1 >>))
      \/ (cli.start_time # None /\ cli.start_time[1] < 0)
      \/ (cli.end_time # None /\ cli.end_time[1] < 0)
      \/ ( /\ cli.start_time # None /\ cli.end_time # None
           /\ cli.start_time[1] >= cli.end_time[1] ) )
    => /\ pc \in { "validate", "exited" }
       /\ pc = "exited" => (result = "exit_1" /\ invalid_arguments # None)
       /\ renderer = None
       /\ ~init_called
       /\ frame_iter = None

\* C17: when validate() has accepted the command line, every time bound
\* given is >= 0 (one bound or both), and start < end when both are given.
C17_AcceptedTimesAreValid ==
    (pc # "validate" /\ invalid_arguments = None)
    => /\ cli.start_time # None => cli.start_time[1] >= 0
       /\ cli.end_time # None => cli.end_time[1] >= 0
       /\ (cli.start_time # None /\ cli.end_time # None)
          => cli.start_time[1] < cli.end_time[1]

\* C20: with a notifier configured, inside the loop the last label sent is
\* the paused label when paused and the playing label otherwise; after a
\* clean shutdown the last label sent is the empty one; the steps that
\* call the notifier go on as if it had succeeded, whatever it did: the
\* loop is entered or continues, PlaybackState changes by the toggle only.
C20_NotifierFollowsPlaybackState ==
    /\ []( (sketchybar # None /\ pc \in LoopPcs)
           => sketchybar[1].sent =
                  Some(IF state.paused THEN "paused" ELSE "playing") )
    /\ []( (sketchybar # None /\ pc = "exited" /\ result = "ok")
           => sketchybar[1].sent = Some("") )
    /\ [][ /\ (pc = "poll" /\ last' \in { "key_pause", "key_pause_err" })
              => /\ pc' = "gate"
                 /\ state' = [ state EXCEPT !.paused = ~state.paused ]
                 /\ result' = "running"
           /\ (pc = "load" /\ last' = "load_video")
              => (pc' = "poll" /\ state' = state /\ result' = "running")
         ]_vars

\* C20 witness: the loop goes on, paused, after the pause notification
\* failed: the bar still shows the playing label.
C20_Witness ==
    /\ sketchybar # None
    /\ pc = "poll"
    /\ state.paused
    /\ sketchybar[1].sent = Some("paused")
    /\ sketchybar[1].shown = Some("playing")
    /\ ~sketchybar[1].last_ok
    /\ frame_count = 1

\* C21: when --width and/or --height is given, every converted frame fits
\* within the explicit dimensions (the explicit value replacing the detected
\* one), not within the detected terminal size.
C21_ExplicitSizeOverrides ==
    (ascii_frame # None /\ (cli.width # None \/ cli.height # None))
    => LET size == GetTerminalSize(cli, << renderer[1].terminal_width,
                                           renderer[1].terminal_height >>)
       IN  /\ ascii_frame[1].width <= Max(size[1], 1)
           /\ ascii_frame[1].height <= Max(size[2], 1)

\* The steps of a loop iteration in which show_help is true where the loop
\* reaches the code after the input match: the input step that ends with
\* show_help set, and the step taken from there.
HelpIterationStep ==
    \/ pc = "poll" /\ pc' = "gate" /\ state'.show_help
    \/ pc = "gate" /\ state.show_help

\* C22, as claimed: the help key toggles show_help and changes nothing else
\* of PlaybackState (pressed twice it restores the state); in every
\* iteration in which show_help is true no frame is pulled, converted or
\* rendered and frame_count is unchanged.
C22_HelpIterationChangesNothing ==
    [][ /\ (pc = "poll" /\ last' = "key_help")
           => state' = [ state EXCEPT !.show_help = ~state.show_help ]
        /\ HelpIterationStep
           => /\ pc' \notin { "convert", "render" }
              /\ UNCHANGED << frame, ascii_frame >>
              /\ frame_count' = frame_count ]_vars

\* C22, amended: as claimed, except that the restart key is handled while
\* the help overlay is shown too: the iteration that handles it reopens the
\* source and sets frame_count to 0; in every other help iteration
\* frame_count and the frame source are unchanged.
C22_HelpIterationPullsNoFrame ==
    [][ /\ (pc = "poll" /\ last' = "key_help")
           => state' = [ state EXCEPT !.show_help = ~state.show_help ]
        /\ HelpIterationStep
           => /\ pc' \notin { "convert", "render" }
              /\ UNCHANGED << frame, ascii_frame >>
              /\ IF pc = "poll" /\ last' = "key_restart"
                 THEN frame_count' = 0 /\ frame_iter' = Some(Reopen(cli))
                 ELSE frame_count' = frame_count /\ frame_iter' = frame_iter
      ]_vars

\* C22 witness: an iteration has ended in the help overlay, shown over a
\* paused playback after frames were rendered, the source standing behind
\* the last frame rendered.
C22_Witness ==
    /\ pc = "poll"
    /\ last = "show_help"
    /\ state.show_help
    /\ state.paused
    /\ frame_count = 2
    /\ frame_iter[1].pos = 2

\* C23, as claimed: after each rendered frame the controller sleeps for
\* 1000 / (source_fps * speed) milliseconds rounded to the nearest
\* millisecond, source_fps being --fps if given and the video's rate
\* otherwise, speed the PlaybackState.speed of that iteration.
C23_FrameDelayIsRounded ==
    last = "render"
    => LET source_fps == IF cli.fps # None THEN cli.fps[1] ELSE VideoFps
           e == RatMul(source_fps, state.speed)
       IN  /\ frame_delay # None
           /\ 2 * e[1] * frame_delay[1] <= 2000 * e[2] + e[1]
           /\ 2000 * e[2] + e[1] < 2 * e[1] * (frame_delay[1] + 1)

\* C23, amended: the delay is 1000 / (source_fps * speed) milliseconds with
\* the fraction cut off (the largest whole number of milliseconds not above
\* it), for the same source_fps and the speed of that iteration.
C23_FrameDelayIsTruncated ==
    last = "render"
    => LET source_fps == IF cli.fps # None THEN cli.fps[1] ELSE VideoFps
           e == RatMul(source_fps, state.speed)
       IN  /\ frame_delay # None
           /\ e[1] * frame_delay[1] <= 1000 * e[2]
           /\ 1000 * e[2] < e[1] * (frame_delay[1] + 1)

\* C23 witness: a frame was rendered at --fps 24 after two speed-up keys:
\* 1000 / (24 * 1.5625) = 26.67 ms, slept 26 ms.
C23_Witness ==
    /\ last = "render"
    /\ cli.fps = Some(<< 24, 1 >>)
    /\ state.speed = << 25, 16 >>
    /\ frame_delay = Some(26)

\* C24, as claimed: a frame passed to the renderer is at least 1x1 and no
\* larger than the renderer's cached terminal size at that time, whatever
\* resize events came before, also when the cached size is 0 in a
\* dimension; the cache changes only in a step that handles a resize event.
C24_FrameFitsCachedTerminal ==
    /\ []( pc = "render"
           => /\ 1 <= ascii_frame[1].width
              /\ ascii_frame[1].width <= renderer[1].terminal_width
              /\ 1 <= ascii_frame[1].height
              /\ ascii_frame[1].height <= renderer[1].terminal_height )
    /\ [][ (renderer # None /\ renderer' # renderer)
           => (pc = "poll" /\ last' = "resize") ]_vars

\* C24, amended: a frame passed to the renderer is at least 1x1, and in
\* each dimension it does not exceed the cached terminal size unless that
\* is 0, where the frame's dimension is 1; the cache changes only in a step
\* that handles a resize event.
C24_FrameFitsCachedTerminalOrIsOne ==
    /\ []( pc = "render"
           => /\ 1 <= ascii_frame[1].width
              /\ ascii_frame[1].width <= Max(renderer[1].terminal_width, 1)
              /\ 1 <= ascii_frame[1].height
              /\ ascii_frame[1].height
                     <= Max(renderer[1].terminal_height, 1) )
    /\ [][ (renderer # None /\ renderer' # renderer)
           => (pc = "poll" /\ last' = "resize") ]_vars

\* C24 witness: the second frame is passed to the renderer as 1x1 cells
\* after a resize event shrank the cached terminal size to 0x0.
C24_Witness ==
    /\ pc = "render"
    /\ frame_count = 1
    /\ renderer[1] = [ terminal_width |-> 0, terminal_height |-> 0 ]
    /\ ascii_frame[1].width = 1
    /\ ascii_frame[1].height = 1

\* C25: a call that renders one frame, with render_frame or with
\* render_frame_with_status, has flushed the output exactly once when it
\* returns Ok, and nothing stays queued.
C25_OneFlushPerFrame ==
    (call.fn \in { "render_frame", "render_frame_with_status" }
     /\ call.at = "returned")
    => (call.flushes = 1 /\ call.queued = 0)

\* C26: convert_frame never aborts, and the cell it pushes for target cell
\* (x, y) is output position y * tw + x and has the glyph and colours of
\* source pixel (floor(x * src_w / tw), floor(y * src_h / th)), for every
\* target size the sizing step produces: the index arithmetic does not wrap.
C26_CellsComeFromNearestPixel ==
    call.fn = "convert_frame"
    => /\ call.at # "panicked"
       /\ call.cell # None
          => LET tw == call.target[1]
                 th == call.target[2]
                 c  == call.cell[1]
                 position == c.y * tw + c.x
                 expected == CellAt(call.config, call.frame, tw, th,
                                    position * 3)
             IN  /\ c.x < tw /\ c.y < th
                 /\ call.characters_len = position + 1
                 /\ c.pixel_index = position * 3
                 /\ c.ch = expected.ch
                 /\ c.fg = expected.fg
                 /\ c.bg = expected.bg

\* C27: within one FrameIterator session seek_to is called only when a start
\* time is configured and only before the first frame is decoded; it
\* succeeds at most once and no call of next() after the successful one
\* seeks again; a failed seek yields an error item and the following call
\* of next() seeks again; without a start time there is never a seek.
C27_SeekAtMostOnceBeforeFirstFrame ==
    /\ []( call.fn = "FrameIterator::next"
           => /\ call.iter.start_time = None => call.seeks = 0
              /\ ~call.seek_after_decode
              /\ call.seeks_ok <= 1
              /\ call.seek_failed
                 => (call.item = "error" /\ call.seeks_ok = 0) )
    /\ [][ call.fn = "FrameIterator::next"
           => /\ call.seeks_ok = 1 => call'.seeks = call.seeks
              /\ call.seek_failed => call'.seeks = call.seeks + 1 ]_vars

\* C27 witness: a session with a start time whose first two seeks failed and
\* whose third call of next() sought and returned the frame at the start
\* time, followed by the next frame without a seek.
C27_Witness ==
    /\ call.fn = "FrameIterator::next"
    /\ call.iter.start_time = Some(2)
    /\ call.calls = 4
    /\ call.seeks = 3
    /\ call.seeks_ok = 1
    /\ call.item = "frame"
    /\ call.iter.pos = 4

\* The labels of the steps that consume an input event.
InputEventLabels ==
    { "key_quit", "key_pause", "key_pause_err", "key_speed_up",
      "key_speed_down", "key_loop", "key_help", "key_restart",
      "key_restart_err", "other_event", "resize", "resize_err" }

\* C28: started without looping, main eventually terminates unless an
\* input event arrives (only an event can pause, show the help or enable
\* looping); a frame pulled is the one at the source's position, which then
\* moves on, and the position goes back only by a restart key or by a loop;
\* while loop_enabled is set the loop is left only by a quit key or by an
\* error, never by the end of the video, and the exhausted source (also one
\* without frames) is reopened; after a quit key main eventually exits.
C28_TerminatesUnlessLooping ==
    /\ <>(cli.loop_playback \/ Terminated \/ last \in InputEventLabels)
    /\ [][ /\ last' = "next_frame"
              => /\ frame'[1].index = frame_iter[1].pos
                 /\ frame_iter'[1].pos = frame_iter[1].pos + 1
           /\ (frame_iter # None /\ frame_iter'[1].pos < frame_iter[1].pos)
              => \/ pc = "poll" /\ last' = "key_restart"
                 \/ pc = "gate" /\ last' = "end_loop" /\ state.loop_enabled
           /\ (state.loop_enabled /\ pc \in LoopPcs /\ pc' \notin LoopPcs)
              => exit_cause' \in { "quit", "io_error", "source_error",
                                   "reopen_error" }
           /\ (pc = "gate" /\ last' = "end_loop")
              => (pc' = "poll" /\ frame_iter' = Some(Reopen(cli))) ]_vars
    /\ (last = "key_quit") ~> (pc = "exited")

\* C28 witness: a playback without looping has played all frames and main
\* has returned Ok after the end of the video.
C28_Witness ==
    /\ pc = "exited"
    /\ ~cli.loop_playback
    /\ exit_cause = "end_of_video"
    /\ result = "ok"
    /\ frame_count = NumFrames
    /\ state = InitialState(cli)

\* C29: the process exits with status 0 only after an explicit quit or after
\* the end of the video with looping disabled; a run that ends because of a
\* frame source error (an error item of next(), a failed reopen) or of a
\* terminal I/O error exits with a non-zero status.
C29_ExitStatusTellsErrors ==
    pc = "exited"
    => /\ result = "ok" => exit_cause \in { "quit", "end_of_video" }
       /\ exit_cause \in { "source_error", "reopen_error", "io_error" }
          => result \in { "err", "exit_1" }

\* C30: an iteration consumes at most one input event: the step that polls
\* is followed by the rest of the iteration or by leaving the loop, never by
\* another poll.  Whatever paused and show_help are, every key can be read,
\* a speed key changes only speed, the loop key only loop_enabled, the
\* restart key reopens the source and sets frame_count to 0 and leaves
\* PlaybackState alone (when reopening fails it changes none of them and
\* main returns the error), and an unrecognised key or event leaves
\* PlaybackState, the frame source and frame_count alone.
C30_KeysActAlikeInEveryState ==
    /\ []( pc = "poll"
           => /\ ENABLED KeyLoop /\ ENABLED KeyRestart /\ ENABLED OtherEvent
              /\ Representable(RatMul(state.speed, SpeedFactor))
                 => ENABLED KeySpeedUp
              /\ Representable(RatDiv(state.speed, SpeedFactor))
                 => ENABLED KeySpeedDown )
    /\ [][ pc = "poll"
           => /\ pc' # "poll"
              /\ last' = "key_speed_up"
                 => /\ state' = [ state EXCEPT
                                    !.speed = RatMin(RatMul(state.speed,
                                                  << 5, 4 >>), << 4, 1 >>) ]
                    /\ UNCHANGED << frame_iter, frame_count >>
              /\ last' = "key_speed_down"
                 => /\ state' = [ state EXCEPT
                                    !.speed = RatMax(RatDiv(state.speed,
                                                  << 5, 4 >>), << 1, 4 >>) ]
                    /\ UNCHANGED << frame_iter, frame_count >>
              /\ last' = "key_loop"
                 => /\ state' = [ state EXCEPT
                                    !.loop_enabled = ~state.loop_enabled ]
                    /\ UNCHANGED << frame_iter, frame_count >>
              /\ last' = "key_restart"
                 => /\ frame_iter' = Some(LoadVideo(cli.start_time,
                                                    cli.end_time))
                    /\ frame_count' = 0
                    /\ state' = state
              /\ last' = "key_restart_err"
                 => UNCHANGED << state, frame_iter, frame_count >>
              /\ last' = "other_event"
                 => UNCHANGED << state, frame_iter, frame_count >> ]_vars

\* C30 witness: the loop key was handled in an iteration that is paused and
\* shows the help overlay, at a speed changed by a speed key, after a
\* frame was rendered.
C30_Witness ==
    /\ pc = "gate"
    /\ last = "key_loop"
    /\ state.paused
    /\ state.show_help
    /\ state.loop_enabled # cli.loop_playback
    /\ state.speed = << 5, 4 >>
    /\ frame_count = 1

====
